---- MODULE Spec2Model ----
(***************************************************************************)
(* The particle-tornado visualizer (VortexVisualizer, in                   *)
(* src/components/TabList.tsx) and the host state machine that mounts it   *)
(* (App, in src/unnamed/part_000).                                         *)
(*                                                                         *)
(* Numbers.  The source computes in IEEE doubles; the model computes in    *)
(* fixed point, every product and quotient rounded to the nearest unit:    *)
(*   lengths (x, y, z, orbitHeight, targets, radius)  1/10 px              *)
(*   userOffset                                       1/1000000            *)
(*   entryProgress, entrySpeed                        1/1100               *)
(*   ease, sin, cos, orbitSpeedOffset                 1/1000               *)
(*   baseSpeed 1/100, radiusMultiplier and wobbleStrength 1/10             *)
(*   angles                                           1/1000 rad           *)
(*   opacity                                          1/30000              *)
(* Time is counted in units of 500 ms (setTimeout delays 2500 and 3000 ms  *)
(* are 5 and 6 units; the host's 800 ms is rounded up to 2).  The 200 ms    *)
(* debounce timers of the sliders run on a clock of their own, in units of  *)
(* 100 ms (commits, TickCommits); slider input is part of the               *)
(* specification SpecConfig only, whose session has no other timer pending. *)
(* The tumble angles rotX/rotY/rotZ are not modelled: nothing below reads  *)
(* them.  A payload string (title, domain, url) is a pair of its kind and   *)
(* the id of the item it was made for.                                      *)
(***************************************************************************)
EXTENDS Integers, Sequences, FiniteSets, TLC

VARIABLES
  appState,         \* App: 'idle' | 'exploding' | 'processing' | 'assembling' | 'results'
  tabs,             \* App: the item list, a sequence of items (id, title, domain, url)
  organizedGroups,  \* App: None (null) or Some(forest)
  inflight,         \* App: classification calls awaiting their response (captured tabs)
  timers,           \* pending setTimeout callbacks, in creation order
  phase,            \* VortexVisualizer: 'suction' | 'storm' | 'assemble'
  particlesRef,     \* VortexVisualizer: particlesRef.current
  userOffset,       \* VortexVisualizer: physics.current.userOffset
  configRef,        \* VortexVisualizer: configRef.current (the live config)
  requestRef,       \* VortexVisualizer: number of pending animation-frame callbacks
  elementsRef,      \* VortexVisualizer: the style of elementsRef.current[i]
  completions,      \* how many times onAssemblyComplete has been invoked
  runs,             \* how many times the user has started an organize run
  renders,          \* how many host re-renders (theme toggles) have happened
  frames,           \* how many frames have run in the current session
  sessions,         \* how many times VortexVisualizer has been mounted
  idle,             \* how many frames have run since the last wheel event
  sinceMount,       \* time since the mount of the current session (saturating)
  sinceResult,      \* time the current session has had its organizedGroups (saturating)
  config,           \* VortexVisualizer: the config state (the committed config)
  configIsDefault,  \* whether the config state is the DEFAULT_CONFIG object itself
  storage,          \* localStorage slot 'vortex_config': None (absent) or Some(text)
  commits,          \* pending debounce timers of the sliders, in creation order
  userSet           \* per parameter, the value the user set on its slider since the
                    \* last mount or reset, if any

vars == <<appState, tabs, organizedGroups, inflight, timers, phase, particlesRef,
          userOffset, configRef, requestRef, elementsRef, completions, runs,
          renders, frames, sessions, idle, sinceMount, sinceResult, config,
          configIsDefault, storage, commits, userSet>>

hostVars == <<appState, tabs, organizedGroups, inflight, runs, renders>>

clockVars == <<sinceMount, sinceResult>>

storeVars == <<config, configIsDefault, storage>>

sliderVars == <<commits, userSet>>

----------------------------------------------------------------------------
(* Bounds of the model *)

MaxRuns == 1
MaxRenders == 2
MaxFrames == 3
MaxIdle == 200
MaxClock == 7

----------------------------------------------------------------------------
(* Optional values: undefined / null is None *)

None == <<>>
Some(v) == <<v>>
IsSome(o) == o # <<>>
Get(o) == o[1]

(* Fixed-point helpers *)

Abs(a) == IF a < 0 THEN -a ELSE a

\* a / b rounded to the nearest integer, symmetric in the sign of a (b > 0)
RoundDiv(a, b) == IF a >= 0 THEN (2 * a + b) \div (2 * b)
                            ELSE -((2 * (-a) + b) \div (2 * b))

Max(a, b) == IF a >= b THEN a ELSE b

Pi == 3142
TwoPi == 6283

\* Math.sin of an angle in 1/1000 rad, in 1/1000 (Bhaskara's rational form)
SinHalf(x) == LET q == (x * (Pi - x)) \div 1000
              IN  RoundDiv(16000 * q, 49348 - 4 * q)

Sin(a) == LET r == a % TwoPi
          IN  IF r <= Pi THEN SinHalf(r) ELSE -SinHalf(r - Pi)

Cos(a) == Sin(a + 1571)

----------------------------------------------------------------------------
(* Program constants *)

MaxParticles == 120        \* tabs.slice(0, 120)
StormDelay == 5            \* 2500 ms
SettleDelay == 6           \* 3000 ms
ExplodeDelay == 2          \* 800 ms
OffOne == 1000000         \* 1.0 (userOffset is in 1/1000000)
OffsetStep == 100000       \* 0.1
OffsetMax == 500000        \* 0.5
OffsetEps == 10000         \* 0.01
ColWidth == 3200           \* 320 px
RowHeight == 600           \* 60 px
TopAnchor == -2000         \* -200 px
NearFade == 8000           \* z > 800
NearWindow == 3000         \* / 300
FarFade == 20000           \* z < -2000
FarWindow == 10000         \* / 1000
OpacityOne == 30000        \* opacity 1, in 1/30000
Visible == 300             \* opacity 0.01
LaunchY == 15000           \* 1500 px
LerpFactor == 8            \* 0.08, in 1/100
Decay == 98                \* 0.98, in 1/100
EntryOne == 1100           \* entryProgress 1.0, in 1/1100 (0.01 is 11, 1/22 is 50)
DebounceDelay == 2         \* 200 ms, in units of 100 ms

DEFAULT_CONFIG == [baseSpeed |-> 1, tornadoX |-> -1200, radiusMultiplier |-> 13,
                   verticalSpread |-> 10000, wobbleStrength |-> 2]

----------------------------------------------------------------------------
(* The physics step of one particle (animate, the body of its loop) *)

\* 200 + (1 - |1 - heightFactor|)^2 * 600
BaseRadiusWaist(h, spread) ==
  LET e == spread - Abs(spread \div 2 - h)   \* (1 - |1 - heightFactor|) * spread
  IN  2000 + RoundDiv(((e * e) \div spread) * 6000, spread)

\* 200 + |1 - heightFactor|^2 * 600, heightFactor = (h + spread/2) / spread
BaseRadius(h, spread) ==
  LET d == spread \div 2 - h          \* (1 - heightFactor) * spread
  IN  2000 + RoundDiv(((d * d) \div spread) * 6000, spread)

\* const effectiveSpeedMod = 1.0 + userOffset
EffectiveSpeedMod(off) == OffOne + off

\* const effectiveZoomMod = 1.0 - userOffset
EffectiveZoomMod(off) == OffOne - off

Radius(p, cfg, off) ==
  LET zoom == EffectiveZoomMod(off) \div 1000   \* in 1/1000
      r1 == RoundDiv((BaseRadius(p.orbitHeight, cfg.verticalSpread)
                      + p.orbitRadiusNoise) * zoom, 1000)
  IN  RoundDiv(r1 * cfg.radiusMultiplier, 10)

\* p.orbitAngle += cfg.baseSpeed * p.orbitSpeedOffset * effectiveSpeedMod
NextAngle(p, cfg, off) ==
  LET a1 == RoundDiv(cfg.baseSpeed * 10 * p.orbitSpeedOffset, 1000)
  IN  (p.orbitAngle + RoundDiv(a1 * EffectiveSpeedMod(off), OffOne)) % TwoPi

OrbitX(p, cfg, off) ==
  cfg.tornadoX + RoundDiv(Cos(NextAngle(p, cfg, off)) * Radius(p, cfg, off), 1000)

OrbitZ(p, cfg, off) ==
  RoundDiv(Sin(NextAngle(p, cfg, off)) * Radius(p, cfg, off), 1000)
  + RoundDiv(Sin(p.orbitHeight) * 50 * cfg.wobbleStrength, 1000)

\* 1 - Math.pow(1 - entryProgress, 3), in 1/1000
Ease(ep) ==
  LET q == RoundDiv((EntryOne - ep) * 1000, EntryOne)
  IN  1000 - RoundDiv(q * q * q, 1000000)

\* The entry speeds whose repeated double sum lands below 1.0 where the exact
\* sum is 1: 22 additions of 0.045454545454545456 (the double next above
\* 1/22, which 0.01 + Math.random() * 0.04 gives for Math.random() =
\* 0.8863636363636362) are 0.9999999999999997.  100 additions of 0.01 and 25
\* of 0.04 are not below 1.
RoundsShort == {50}

\* the double p.entryProgress + p.entrySpeed: the exact sum, or the largest
\* value below 1 where the double sum falls short of 1
FloatSum(ep, es) ==
  IF ep + es = EntryOne /\ es \in RoundsShort THEN EntryOne - 1 ELSE ep + es

\* the advance with the clamp to 1 forgotten
NextEntryProgressNoClamp(p) ==
  IF p.entryProgress < EntryOne
    THEN FloatSum(p.entryProgress, p.entrySpeed)
    ELSE p.entryProgress

\* p.entryProgress += p.entrySpeed; if (p.entryProgress > 1) p.entryProgress = 1
NextEntryProgress(p) ==
  IF p.entryProgress < EntryOne
    THEN IF FloatSum(p.entryProgress, p.entrySpeed) > EntryOne THEN EntryOne
         ELSE FloatSum(p.entryProgress, p.entrySpeed)
    ELSE p.entryProgress

BottomLimit(cfg) == -(cfg.verticalSpread \div 2) - 2000
TopLimit(cfg) == cfg.verticalSpread \div 2 + 2000

\* 2 * effectiveSpeedMod * cfg.baseSpeed * 10
VerticalSpeed(cfg, off) == RoundDiv(cfg.baseSpeed * EffectiveSpeedMod(off), OffOne \div 2)

\* the suction / storm branch; noise is the value Math.random() * 100 would give
StormStep(p, cfg, off, noise) ==
  LET ep == NextEntryProgress(p)
      ease == Ease(ep)
      ox == OrbitX(p, cfg, off)
      oz == OrbitZ(p, cfg, off)
      oy == p.orbitHeight
      entering == p.entryProgress < EntryOne
      h1 == p.orbitHeight - VerticalSpeed(cfg, off)
      wrap == h1 < BottomLimit(cfg)
  IN  [p EXCEPT
        !.orbitAngle = NextAngle(p, cfg, off),
        !.entryProgress = ep,
        !.x = IF entering THEN RoundDiv(ox * ease, 1000) ELSE ox,
        !.z = IF entering THEN RoundDiv(oz * ease, 1000) ELSE oz,
        !.y = IF entering THEN RoundDiv(LaunchY * (1000 - ease) + oy * ease, 1000)
                          ELSE oy,
        !.orbitHeight = IF wrap THEN TopLimit(cfg) ELSE h1,
        !.orbitRadiusNoise = IF wrap THEN noise ELSE p.orbitRadiusNoise]

----------------------------------------------------------------------------
(* Target resolution (animate, the assembly branch) *)

\* a search of the direct members only
HasIdShallow(grp, id) == \E i \in 1..Len(grp.tabs) : grp.tabs[i].id = id

RECURSIVE HasId(_, _)
\* grp.tabs.some(t => t.id === p.id) || (grp.subgroups || []).some(hasId)
HasId(grp, id) ==
  \/ \E i \in 1..Len(grp.tabs) : grp.tabs[i].id = id
  \/ \E j \in 1..Len(grp.subgroups) : HasId(grp.subgroups[j], id)

\* organizedGroups.findIndex(g => hasId(g)), 0-based, -1 when there is none
TopGroupIndex(groups, id) ==
  LET hits == {i \in 1..Len(groups) : HasId(groups[i], id)}
  IN  IF hits = {} THEN -1
      ELSE (CHOOSE i \in hits : \A j \in hits : i <= j) - 1

GroupIndex(groups, id) ==
  IF TopGroupIndex(groups, id) # -1 THEN TopGroupIndex(groups, id) ELSE Len(groups)

\* p.id.charCodeAt(0) % 8 when the id is in a group, else 0
IndexInGroup(groups, id) ==
  IF TopGroupIndex(groups, id) # -1 THEN id[1] % 8 ELSE 0

\* the columns laid out from the left edge, the half column forgotten
TargetXFromEdge(groups, id) ==
  LET totalW == Len(groups) * ColWidth
      startX == -(totalW \div 2)
  IN  startX + GroupIndex(groups, id) * ColWidth

TargetX(groups, id) ==
  LET totalW == Len(groups) * ColWidth
      startX == -(totalW \div 2) + ColWidth \div 2
  IN  startX + GroupIndex(groups, id) * ColWidth

\* jitter is the value Math.random() * 30 would give
TargetY(groups, id, jitter) == TopAnchor + IndexInGroup(groups, id) * RowHeight + jitter

\* a resolution that is not gated by "if unset"
ResolveTargetAlways(p, og, jitter) ==
  IF IsSome(og)
    THEN [p EXCEPT !.targetX = Some(TargetX(Get(og), p.id)),
                   !.targetY = Some(TargetY(Get(og), p.id, jitter))]
    ELSE p

ResolveTarget(p, og, jitter) ==
  IF IsSome(og) /\ p.targetX = None
    THEN [p EXCEPT !.targetX = Some(TargetX(Get(og), p.id)),
                   !.targetY = Some(TargetY(Get(og), p.id, jitter))]
    ELSE p

\* p.targetX || 0
OrZero(o) == IF IsSome(o) THEN Get(o) ELSE 0

Lerp(from, to) == from + RoundDiv((to - from) * LerpFactor, 100)

AssembleStep(p, cfg, off, og, jitter) ==
  LET q == ResolveTarget(p, og, jitter)
  IN  [q EXCEPT
        !.orbitAngle = NextAngle(p, cfg, off),
        !.x = Lerp(p.x, OrZero(q.targetX)),
        !.y = Lerp(p.y, OrZero(q.targetY)),
        !.z = Lerp(p.z, 0)]

PhysicsStep(p, ph, cfg, off, og, rnd) ==
  IF ph = "suction" \/ ph = "storm"
    THEN StormStep(p, cfg, off, rnd.noise)
    ELSE AssembleStep(p, cfg, off, og, rnd.jitter)

----------------------------------------------------------------------------
(* Projection of one particle (animate, the direct DOM update) *)

\* the opacity computed from p.z, in 1/30000
Opacity(z) ==
  IF z > NearFade THEN Max(0, OpacityOne - (z - NearFade) * (OpacityOne \div NearWindow))
  ELSE IF z < -FarFade
         THEN Max(0, OpacityOne - (Abs(z) - FarFade) * (OpacityOne \div FarWindow))
         ELSE OpacityOne

\* the key without the shift by 3000
ZIndexNoShift(z) == z \div 10

\* Math.floor(p.z + 3000)
ZIndex(z) == (z + 30000) \div 10

\* opacity.toFixed(2), in 1/100
ToFixed2(op) == RoundDiv(op, 300)

\* a projection that never shows a hidden element again
ProjectNoReshow(el, p) ==
  IF Opacity(p.z) < Visible
    THEN [el EXCEPT !.display = "none"]
    ELSE [display |-> el.display, opacity |-> ToFixed2(Opacity(p.z)),
          zIndex |-> ZIndex(p.z)]

\* display 'none' below 0.01, else opacity, zIndex and display 'flex'
Project(el, p) ==
  IF Opacity(p.z) < Visible
    THEN [el EXCEPT !.display = "none"]
    ELSE [display |-> "flex", opacity |-> ToFixed2(Opacity(p.z)), zIndex |-> ZIndex(p.z)]

----------------------------------------------------------------------------
(* The classification response and its mapping to groups (App) *)

IndexOf(seq, v) == \E i \in 1..Len(seq) : seq[i] = v

RECURSIVE FilterSeq(_, _, _)
\* the elements of seq, in order, that are in keep (a set) -- Array.filter
FilterSeq(seq, keep, i) ==
  IF i > Len(seq) THEN <<>>
  ELSE (IF seq[i] \in keep THEN <<seq[i]>> ELSE <<>>) \o FilterSeq(seq, keep, i + 1)

Range(seq) == {seq[i] : i \in 1..Len(seq)}

RECURSIVE FindTabs(_, _, _)
\* tabIds.map(id => allTabs.find(t => t.id === id)).filter(t => t !== undefined)
FindTabs(tabIds, allTabs, i) ==
  IF i > Len(tabIds) THEN <<>>
  ELSE LET hits == {k \in 1..Len(allTabs) : allTabs[k].id = tabIds[i]}
       IN  (IF hits = {} THEN <<>>
            ELSE <<allTabs[CHOOSE k \in hits : \A j \in hits : k <= j]>>)
           \o FindTabs(tabIds, allTabs, i + 1)

RECURSIVE MapResponseToGroups(_, _)
\* rawGroups.map(...).filter(g => g.tabs.length > 0 || g.subgroups.length > 0)
MapResponseToGroups(rawGroups, allTabs) ==
  LET mapOne(g) == [tabs |-> FindTabs(g.tabIds, allTabs, 1),
                    subgroups |-> MapResponseToGroups(g.subgroups, allTabs)]
      mapped == [i \in 1..Len(rawGroups) |-> mapOne(rawGroups[i])]
      keep == {g \in Range(mapped) : Len(g.tabs) > 0 \/ Len(g.subgroups) > 0}
  IN  FilterSeq(mapped, keep, 1)

----------------------------------------------------------------------------
(* Particle initialisation (the first effect of VortexVisualizer) *)

\* one particle from its item and the values its Math.random() calls give (d)
InitialParticle(tab, d) ==
  [id |-> tab.id, title |-> tab.title, domain |-> tab.domain, url |-> tab.url,
   orbitAngle |-> d.angle, orbitHeight |-> d.h,
   orbitRadiusNoise |-> d.noise, orbitSpeedOffset |-> d.so,
   x |-> d.x, y |-> d.y, z |-> d.z,
   entryProgress |-> 0, entrySpeed |-> d.es,
   targetX |-> None, targetY |-> None]

\* a pool without the cap
DisplayTabsAll(t) == t

\* tabs.length > 120 ? tabs.slice(0, 120) : tabs
DisplayTabs(t) == IF Len(t) > MaxParticles THEN SubSeq(t, 1, MaxParticles) ELSE t

\* every pool the item list t can give, with each particle's draws in D
InitialParticles(t, D) ==
  {[i \in 1..Len(DisplayTabs(t)) |-> InitialParticle(DisplayTabs(t)[i], ds[i])] :
     ds \in [1..Len(DisplayTabs(t)) -> D]}

\* style={{ display: 'none', ... }}
InitialElement == [display |-> "none", opacity |-> 100, zIndex |-> 0]

InitialElements(t) == [i \in 1..Len(DisplayTabs(t)) |-> InitialElement]

----------------------------------------------------------------------------
(* Timers and the effects of VortexVisualizer *)

Timer(kind, left, cur, arg) ==
  [kind |-> kind, left |-> left, cur |-> cur, live |-> TRUE, arg |-> arg]

Mounted(as) == as \in {"processing", "assembling"}

NotCur(t) == ~t.cur

\* an effect that starts the assemble timer whether or not there is a result
PhaseEffectAlways(tm, og) ==
  SelectSeq(tm, NotCur)
    \o <<Timer("storm", StormDelay, FALSE, <<>>)>>
    \o <<Timer("assemble", StormDelay, TRUE, <<>>)>>

\* an effect that starts the storm timer only
PhaseEffectStormOnly(tm, og) ==
  SelectSeq(tm, NotCur) \o <<Timer("storm", StormDelay, og = None, <<>>)>>

\* the phase-management effect re-run: its cleanup clears the one timer it
\* returned, then a storm timer and, with a result, an assemble timer start
PhaseEffect(tm, og) ==
  SelectSeq(tm, NotCur)
    \o <<Timer("storm", StormDelay, og = None, <<>>)>>
    \o (IF IsSome(og) THEN <<Timer("assemble", StormDelay, TRUE, <<>>)>> ELSE <<>>)

\* unmount: the cleanup clears its one timer; the other timers stay pending
\* and find the component gone
PhaseCleanup(tm) ==
  LET kept == SelectSeq(tm, NotCur)
  IN  [i \in 1..Len(kept) |->
         IF kept[i].kind \in {"storm", "assemble"}
           THEN [kept[i] EXCEPT !.live = FALSE] ELSE kept[i]]

----------------------------------------------------------------------------
(* The frame callback (requestAnimationFrame / cancelAnimationFrame) *)

\* a cancellation that cancels nothing
KeepFrame(n) == n

\* if (requestRef.current) cancelAnimationFrame(requestRef.current): the
\* callback requested last is no longer pending
CancelFrame(n) == IF n > 0 THEN n - 1 ELSE 0

\* a re-run that requests a callback without the cleanup
RescheduleNoCancel(n) == n + 1

\* the re-run of the animation-loop effect: its cleanup cancels, then
\* requestRef.current = requestAnimationFrame(animate)
Reschedule(n) == CancelFrame(n) + 1

----------------------------------------------------------------------------
(* The config store: the state initializer and the effects on [config] *)

Keys == {"baseSpeed", "tornadoX", "radiusMultiplier", "verticalSpread", "wobbleStrength"}

\* the texts the slot can hold: the empty string, one JSON.parse throws on,
\* the JSON of a value without properties (null, a number), the JSON of an object
EmptyText == [kind |-> "empty", value |-> <<>>]
GarbageText == [kind |-> "garbage", value |-> <<>>]
ScalarText == [kind |-> "scalar", value |-> <<>>]
ObjectText(obj) == [kind |-> "object", value |-> obj]

\* JSON.stringify(config)
Stringify(cfg) == ObjectText(cfg)

\* { ...a, ...b } for objects a and b
Spread(a, b) == [k \in (DOMAIN a) \cup (DOMAIN b) |-> IF k \in DOMAIN b THEN b[k] ELSE a[k]]

\* whether the initializer returns the DEFAULT_CONFIG object itself: the slot
\* is absent or empty (if (saved) fails) or JSON.parse throws (catch)
LoadsDefault(slot) == slot = None \/ Get(slot).kind \in {"empty", "garbage"}

\* an initializer that ignores the slot
LoadConfigDefaults(slot) == DEFAULT_CONFIG

\* useState(() => { ... }): the config a session starts with
LoadConfig(slot) ==
  IF LoadsDefault(slot) THEN DEFAULT_CONFIG
  ELSE IF Get(slot).kind = "scalar" THEN DEFAULT_CONFIG
  ELSE Spread(DEFAULT_CONFIG, Get(slot).value)

NoUserSet == [k \in Keys |-> None]

Tock(n) == IF n < MaxClock THEN n + 1 ELSE n

\* The commit of a host render with new state (as2, og2, t2); tm are the
\* pending timers after the handler that caused the render.
VisRender(as2, og2, t2, tm, D) ==
  IF ~Mounted(appState) /\ Mounted(as2) THEN
       /\ \E ps \in InitialParticles(t2, D) : particlesRef' = ps
       /\ elementsRef' = InitialElements(t2)
       /\ phase' = "suction"
       /\ userOffset' = 0
       /\ requestRef' = 1
       /\ frames' = 0
       /\ sessions' = sessions + 1
       /\ timers' = PhaseEffect(tm, og2)
       /\ config' = LoadConfig(storage)
       /\ configIsDefault' = LoadsDefault(storage)
       /\ configRef' = LoadConfig(storage)
       /\ storage' = Some(Stringify(LoadConfig(storage)))
       /\ userSet' = NoUserSet
       /\ sinceMount' = 0
       /\ sinceResult' = 0
  ELSE IF Mounted(appState) /\ ~Mounted(as2) THEN
       /\ requestRef' = CancelFrame(requestRef)
       /\ timers' = PhaseCleanup(tm)
       /\ UNCHANGED <<particlesRef, elementsRef, phase, userOffset, frames, configRef,
                      sessions, storeVars, userSet, clockVars>>
  ELSE IF Mounted(appState) THEN
       /\ timers' = PhaseEffect(tm, og2)
       /\ IF t2 # tabs
            THEN /\ \E ps \in InitialParticles(t2, D) : particlesRef' = ps
                 /\ elementsRef' = InitialElements(t2)
            ELSE UNCHANGED <<particlesRef, elementsRef>>
       /\ requestRef' = IF og2 # organizedGroups THEN Reschedule(requestRef)
                        ELSE IF t2 # tabs THEN CancelFrame(requestRef) ELSE requestRef
       /\ sinceResult' = IF og2 # organizedGroups THEN 0 ELSE sinceResult
       /\ UNCHANGED <<phase, userOffset, frames, configRef, sessions, storeVars,
                      userSet, sinceMount>>
  ELSE /\ timers' = tm
       /\ UNCHANGED <<particlesRef, elementsRef, phase, userOffset, frames,
                      configRef, requestRef, sessions, storeVars, userSet, clockVars>>

\* the timers without the i-th
Without(tm, i) == SubSeq(tm, 1, i - 1) \o SubSeq(tm, i + 1, Len(tm))

\* the timer to run next: the oldest one that is due
Due(i) == /\ i \in 1..Len(timers)
          /\ timers[i].left = 0
          /\ \A j \in 1..(i - 1) : timers[j].left > 0

----------------------------------------------------------------------------
(* Inputs of the model *)

\* item ids: the character codes of the first two characters of a UUID
Id01 == <<48, 49>>
Id82 == <<56, 50>>
IdA3 == <<97, 51>>

\* the item parseAndAddInput or the file import makes, with the given id
Item(id) == [id |-> id, title |-> <<"title", id>>, domain |-> <<"domain", id>>,
             url |-> <<"url", id>>]

\* the values one particle's Math.random() calls give at initialisation
Draw(h, angle, es) ==
  [h |-> h, angle |-> angle, noise |-> 500, so |-> 1000,
   x |-> 0, y |-> 14000, z |-> 0, es |-> es]

Draws == {Draw(9000, 1571, 50)}

\* the values one particle's Math.random() calls give in a frame
FrameDraws == [noise : {0}, jitter : {0, 299}]

RawGroup(ids, subs) == [tabIds |-> ids, subgroups |-> subs]

Responses == {<<RawGroup(<<Id01>>, <<RawGroup(<<Id82>>, <<>>)>>)>>}

----------------------------------------------------------------------------
(* App *)

\* handleOrganize: the button is shown in 'idle' with a non-empty list
HandleOrganize ==
  /\ appState = "idle"
  /\ Len(tabs) > 0
  /\ runs < MaxRuns
  /\ runs' = runs + 1
  /\ appState' = "exploding"
  /\ timers' = Append(timers, Timer("explode", ExplodeDelay, FALSE, tabs))
  /\ UNCHANGED <<tabs, organizedGroups, inflight, renders, phase, particlesRef,
                 userOffset, configRef, requestRef, elementsRef, completions, frames,
                 sessions>>
  /\ UNCHANGED <<idle, clockVars, storeVars, sliderVars>>

\* the 800 ms callback of handleOrganize: setAppState('processing'), then the call
FireExplode(D) ==
  \E i \in 1..Len(timers) :
    /\ Due(i)
    /\ timers[i].kind = "explode"
    /\ appState' = "processing"
    /\ inflight' = Append(inflight, timers[i].arg)
    /\ VisRender("processing", organizedGroups, tabs, Without(timers, i), D)
    /\ UNCHANGED <<tabs, organizedGroups, runs, renders, completions>>
  /\ UNCHANGED <<idle, commits>>

\* the classification call resolves: setOrganizedGroups, setAppState('assembling')
ApiSuccess(D) ==
  /\ inflight # <<>>
  /\ \E raw \in Responses :
       LET newGroups == MapResponseToGroups(raw, Head(inflight))
       IN  /\ organizedGroups' = Some(newGroups)
           /\ appState' = "assembling"
           /\ inflight' = Tail(inflight)
           /\ VisRender("assembling", Some(newGroups), tabs, timers, D)
  /\ UNCHANGED <<tabs, runs, renders, completions>>
  /\ UNCHANGED <<idle, commits>>

\* the classification call rejects: setError, setAppState('idle')
ApiFailure(D) ==
  /\ inflight # <<>>
  /\ appState' = "idle"
  /\ inflight' = Tail(inflight)
  /\ VisRender("idle", organizedGroups, tabs, timers, D)
  /\ UNCHANGED <<tabs, organizedGroups, runs, renders, completions>>
  /\ UNCHANGED <<idle, commits>>

\* handleClear: the button is shown while the list is non-empty
HandleClear(D) ==
  /\ Len(tabs) > 0
  /\ tabs' = <<>>
  /\ organizedGroups' = None
  /\ appState' = "idle"
  /\ VisRender("idle", None, <<>>, timers, D)
  /\ UNCHANGED <<inflight, runs, renders, completions>>
  /\ UNCHANGED <<idle, commits>>

\* toggleTheme: a host re-render that changes no prop value but, like every
\* render of App, makes a new handleAssemblyComplete
ToggleTheme(D) ==
  /\ renders < MaxRenders
  /\ renders' = renders + 1
  /\ VisRender(appState, organizedGroups, tabs, timers, D)
  /\ UNCHANGED <<appState, tabs, organizedGroups, inflight, runs, completions>>
  /\ UNCHANGED <<idle, commits>>

\* onAssemblyComplete, 3000 ms after an assemble timer ran: setAppState('results')
FireComplete(D) ==
  \E i \in 1..Len(timers) :
    /\ Due(i)
    /\ timers[i].kind = "complete"
    /\ completions' = completions + 1
    /\ appState' = "results"
    /\ VisRender("results", organizedGroups, tabs, Without(timers, i), D)
    /\ UNCHANGED <<tabs, organizedGroups, inflight, runs, renders>>
  /\ UNCHANGED <<idle, commits>>

----------------------------------------------------------------------------
(* VortexVisualizer *)

\* setTimeout(() => setPhase('storm'), 2500)
FireStorm ==
  \E i \in 1..Len(timers) :
    /\ Due(i)
    /\ timers[i].kind = "storm"
    /\ timers' = Without(timers, i)
    /\ phase' = IF timers[i].live THEN "storm" ELSE phase
    /\ requestRef' = IF timers[i].live /\ phase # "storm"
                       THEN Reschedule(requestRef) ELSE requestRef
    /\ UNCHANGED <<hostVars, particlesRef, userOffset, configRef, elementsRef,
                   completions, frames, sessions>>
  /\ UNCHANGED <<idle, clockVars, storeVars, sliderVars>>

\* setTimeout(() => { setPhase('assemble'); setTimeout(onAssemblyComplete, 3000) }, 2500)
FireAssemble ==
  \E i \in 1..Len(timers) :
    /\ Due(i)
    /\ timers[i].kind = "assemble"
    /\ timers' = Append(Without(timers, i), Timer("complete", SettleDelay, FALSE, <<>>))
    /\ phase' = IF timers[i].live THEN "assemble" ELSE phase
    /\ requestRef' = IF timers[i].live /\ phase # "assemble"
                       THEN Reschedule(requestRef) ELSE requestRef
    /\ UNCHANGED <<hostVars, particlesRef, userOffset, configRef, elementsRef,
                   completions, frames, sessions>>
  /\ UNCHANGED <<idle, clockVars, storeVars, sliderVars>>

\* time passes (500 ms) while no timer is due
Tick ==
  /\ timers # <<>>
  /\ \A i \in 1..Len(timers) : timers[i].left > 0
  /\ timers' = [i \in 1..Len(timers) |-> [timers[i] EXCEPT !.left = @ - 1]]
  /\ UNCHANGED <<hostVars, phase, particlesRef, userOffset, configRef, requestRef,
                 elementsRef, completions, frames, sessions>>
  /\ sinceMount' = IF Mounted(appState) THEN Tock(sinceMount) ELSE sinceMount
  /\ sinceResult' = IF Mounted(appState) /\ IsSome(organizedGroups)
                      THEN Tock(sinceResult) ELSE sinceResult
  /\ UNCHANGED <<idle, storeVars, sliderVars>>

\* the rounding with the upper clamp forgotten
RoundClampNoUpper(newVal) ==
  LET r == ((2 * newVal + OffsetStep) \div (2 * OffsetStep)) * OffsetStep
  IN  IF r < -OffsetMax THEN -OffsetMax ELSE r

\* Math.round(newVal * 10) / 10, then the clamp to [-0.5, 0.5]
RoundClamp(newVal) ==
  LET r == ((2 * newVal + OffsetStep) \div (2 * OffsetStep)) * OffsetStep
  IN  IF r > OffsetMax THEN OffsetMax ELSE IF r < -OffsetMax THEN -OffsetMax ELSE r

\* handleWheel, with direction = Math.sign(e.deltaY)
HandleWheel(direction) ==
  /\ Mounted(appState)
  /\ userOffset' = RoundClamp(userOffset + direction * OffsetStep)
  /\ idle' = 0
  /\ UNCHANGED <<hostVars, timers, phase, particlesRef, configRef, requestRef,
                 elementsRef, completions, frames, sessions, clockVars, storeVars,
                 sliderVars>>

\* the decay without the snap to 0
DecayOffsetNoSnap(off) == RoundDiv(off * Decay, 100)

\* the elastic decay of userOffset
DecayOffset(off) == IF Abs(off) > OffsetEps THEN RoundDiv(off * Decay, 100) ELSE 0

\* the momentum read after the decay of the frame
FrameOffsetAfterDecay(off) == DecayOffset(off)

\* const userOffset = physics.current.userOffset: the momentum the frame's
\* modifiers are computed from, read at the top of animate
FrameOffset(off) == off

\* the loop of animate with the DOM update ahead of the physics calculation
FrameLogProjectFirst(n) ==
  [k \in 1..(2 * n) |-> IF k % 2 = 1 THEN [op |-> "project", i |-> (k + 1) \div 2]
                                     ELSE [op |-> "update", i |-> k \div 2]]

\* for (let i = 0; i < particlesRef.current.length; i++): the operations of
\* one frame in the order the loop does them, for each particle its physics
\* calculation and then its DOM update
FrameLog(n) ==
  [k \in 1..(2 * n) |-> IF k % 2 = 1 THEN [op |-> "update", i |-> (k + 1) \div 2]
                                     ELSE [op |-> "project", i |-> k \div 2]]

\* the operations of the frame on particle i, in the loop's order
OpsOf(log, i) == LET Mine(e) == e.i = i IN SelectSeq(log, Mine)

\* the operations on one particle p and its element el done one after the
\* other (an operation reads and writes nothing but its own p and el); ctx
\* holds what animate read before the loop, rnd the particle's draws
RECURSIVE RunOps(_, _, _, _, _)
RunOps(ops, k, pe, ctx, rnd) ==
  IF k > Len(ops) THEN pe
  ELSE RunOps(ops, k + 1,
              IF ops[k].op = "update"
                THEN [pe EXCEPT !.p = PhysicsStep(pe.p, ctx.phase, ctx.cfg, ctx.off,
                                                  ctx.og, rnd)]
                ELSE [pe EXCEPT !.el = Project(pe.el, pe.p)],
              ctx, rnd)

\* one frame: the loop's operations done on the pool and the elements
RunFrame(log, ps, els, ctx) ==
  [i \in 1..Len(ps) |-> RunOps(OpsOf(log, i), 1, [p |-> ps[i], el |-> els[i]],
                               ctx, ctx.rnd[i])]

\* animate: one frame, run when a requested callback is pending; FD are the
\* values Math.random() may give each particle
Animate(FD) ==
  /\ requestRef >= 1
  /\ \E rnd \in [1..Len(particlesRef) -> FD] :
       LET st == RunFrame(FrameLog(Len(particlesRef)), particlesRef, elementsRef,
                          [phase |-> phase, cfg |-> configRef, off |-> FrameOffset(userOffset),
                           og |-> organizedGroups, rnd |-> rnd])
       IN  /\ particlesRef' = [i \in 1..Len(particlesRef) |-> st[i].p]
           /\ elementsRef' = [i \in 1..Len(particlesRef) |-> st[i].el]
  /\ userOffset' = DecayOffset(userOffset)
  /\ requestRef' = requestRef
  /\ frames' = IF frames < MaxFrames THEN frames + 1 ELSE frames
  /\ idle' = IF idle < MaxIdle THEN idle + 1 ELSE idle
  /\ UNCHANGED <<hostVars, timers, phase, configRef, completions, sessions,
                 clockVars, storeVars, sliderVars>>

----------------------------------------------------------------------------
(* The session life cycle: App and VortexVisualizer together *)

Init ==
  /\ appState = "idle"
  /\ tabs = <<Item(Id01), Item(Id82)>>
  /\ organizedGroups = None
  /\ inflight = <<>>
  /\ timers = <<>>
  /\ phase = "suction"
  /\ particlesRef = <<>>
  /\ elementsRef = <<>>
  /\ userOffset = 0
  /\ configRef = DEFAULT_CONFIG
  /\ requestRef = 0
  /\ completions = 0
  /\ runs = 0
  /\ renders = 0
  /\ frames = 0
  /\ sessions = 0
  /\ idle = 0
  /\ sinceMount = 0
  /\ sinceResult = 0
  /\ config = DEFAULT_CONFIG
  /\ configIsDefault = TRUE
  /\ storage = None
  /\ commits = <<>>
  /\ userSet = NoUserSet

Next ==
  \/ HandleOrganize
  \/ FireExplode(Draws)
  \/ ApiSuccess(Draws)
  \/ ApiFailure(Draws)
  \/ HandleClear(Draws)
  \/ ToggleTheme(Draws)
  \/ FireComplete(Draws)
  \/ FireStorm
  \/ FireAssemble
  \/ Tick
  \/ (frames < MaxFrames /\ Animate(FrameDraws))

Spec == Init /\ [][Next]_vars

----------------------------------------------------------------------------
(* Claims about the session life cycle *)

SameSession == sessions' = sessions

\* C1: in a visualization session the completion callback onAssemblyComplete
\* is invoked once and never a second time, whatever the interleaving of timer
\* firings, result arrival and host re-renders.
C1_CompletionOnce == sessions <= 1 => completions <= 1

\* C2: the phase only moves forward, suction -> storm -> assemble: within a
\* session assemble is never left and storm never goes back to suction.
C2_PhaseForward ==
  [][SameSession =>
       /\ (phase = "assemble" => phase' = "assemble")
       /\ (phase = "storm" => phase' # "suction")]_vars

\* C3: every frame run in the assemble phase leaves every particle of the pool
\* with a target, and within a session a target that is set never changes, by
\* a frame, a phase change or a re-entry into the assemble phase.
C3_TargetStable ==
  [][/\ (phase = "assemble" /\ frames' = frames + 1) =>
          \A i \in 1..Len(particlesRef') :
            IsSome(particlesRef'[i].targetX) /\ IsSome(particlesRef'[i].targetY)
     /\ SameSession =>
          \A i \in 1..Len(particlesRef) :
            IsSome(particlesRef[i].targetX) =>
              /\ i \in 1..Len(particlesRef')
              /\ particlesRef'[i].targetX = particlesRef[i].targetX
              /\ particlesRef'[i].targetY = particlesRef[i].targetY]_vars

\* a pool whose targets are set is back in the storm phase and a frame has run there
C3_Witness ==
  /\ phase = "storm"
  /\ Mounted(appState)
  /\ Len(particlesRef) > 0
  /\ \A i \in 1..Len(particlesRef) :
       IsSome(particlesRef[i].targetX)
       /\ particlesRef[i].entryProgress >= 2 * particlesRef[i].entrySpeed

----------------------------------------------------------------------------
(* The momentum: wheel events and frames of a session in the storm phase.   *)
(* The session is the one the host reaches when the list is cleared during  *)
(* the explosion: mounted with an empty pool, no result, its storm timer    *)
(* run, so a frame does nothing but the decay.                              *)

InitMomentum ==
  /\ appState = "processing"
  /\ tabs = <<>>
  /\ organizedGroups = None
  /\ inflight = <<>>
  /\ timers = <<>>
  /\ phase = "storm"
  /\ particlesRef = <<>>
  /\ elementsRef = <<>>
  /\ userOffset = 0
  /\ configRef = DEFAULT_CONFIG
  /\ requestRef = 1
  /\ completions = 0
  /\ runs = 1
  /\ renders = 0
  /\ frames = 0
  /\ sessions = 1
  /\ idle = 0
  /\ sinceMount = 0
  /\ sinceResult = 0
  /\ config = DEFAULT_CONFIG
  /\ configIsDefault = TRUE
  /\ storage = Some(Stringify(DEFAULT_CONFIG))
  /\ commits = <<>>
  /\ userSet = NoUserSet

NextMomentum ==
  \/ \E direction \in {-1, 0, 1} : HandleWheel(direction)
  \/ Animate(FrameDraws)

SpecMomentum == InitMomentum /\ [][NextMomentum]_vars

\* a step that is a frame (under SpecMomentum the only other step is a wheel event)
IsFrame == idle' = idle + 1 \/ (idle = MaxIdle /\ idle' = MaxIdle)

\* the number of idle frames after which the momentum is 0
SettleFrames == 195

\* C4: after any sequence of scroll events and frames the momentum lies in
\* [-0.5, 0.5].
C4_MomentumClamped == -OffsetMax <= userOffset /\ userOffset <= OffsetMax

\* the momentum sits at the upper clamp after frames and scroll events
C4_Witness == userOffset = OffsetMax /\ frames > 0 /\ idle = 0

\* C5: without scroll events the momentum is exactly 0 after SettleFrames
\* frames, from any value; a frame never changes its sign nor raises its
\* magnitude, and leaves 0 at 0.
C5_MomentumSettles ==
  /\ [](idle >= SettleFrames => userOffset = 0)
  /\ [][IsFrame =>
          /\ (userOffset >= 0 => 0 <= userOffset' /\ userOffset' <= userOffset)
          /\ (userOffset <= 0 => userOffset <= userOffset' /\ userOffset' <= 0)]_vars

\* the longest decay, one frame before the momentum is snapped to 0
C5_Witness == idle = SettleFrames - 1 /\ userOffset # 0

----------------------------------------------------------------------------
(* The physics of a session: one particle from its mount on, through the    *)
(* result's arrival, the storm and the assembly, to the unmount.            *)

PhysFrames == 60

\* a config the sliders allow: speed 0.5, radius 3.0, height 500, wobble 2.0
WIDE_CONFIG == [baseSpeed |-> 50, tornadoX |-> -1200, radiusMultiplier |-> 30,
                verticalSpread |-> 5000, wobbleStrength |-> 20]

PhysConfigs == {DEFAULT_CONFIG, WIDE_CONFIG}

\* heights of 900, -600 and -200 px; entry speeds 1/22, 0.04 and 0.02
PhysDraws == {Draw(9000, 1571, 50), Draw(-6000, 1571, 44), Draw(-2000, 4712, 22)}

\* the state the commit of 'processing' leaves: mounted, the call in flight
InitPhysics ==
  /\ appState = "processing"
  /\ tabs = <<Item(Id01)>>
  /\ organizedGroups = None
  /\ inflight = <<tabs>>
  /\ timers = PhaseEffect(<<>>, None)
  /\ phase = "suction"
  /\ particlesRef \in InitialParticles(tabs, PhysDraws)
  /\ elementsRef = InitialElements(tabs)
  /\ userOffset = 0
  /\ configRef \in PhysConfigs
  /\ requestRef = 1
  /\ completions = 0
  /\ runs = 1
  /\ renders = 0
  /\ frames = 0
  /\ sessions = 1
  /\ idle = 0
  /\ sinceMount = 0
  /\ sinceResult = 0
  /\ config = configRef
  /\ configIsDefault = (config = DEFAULT_CONFIG)
  /\ storage = Some(Stringify(config))
  /\ commits = <<>>
  /\ userSet = NoUserSet

NextPhysics ==
  \/ ApiSuccess(Draws)
  \/ FireStorm
  \/ FireAssemble
  \/ FireComplete(Draws)
  \/ Tick
  \/ (idle < PhysFrames /\ Animate(FrameDraws))

SpecPhysics == InitPhysics /\ [][NextPhysics]_vars

\* under SpecPhysics no wheel event resets idle: it is the number of frames
\* run, all of them suction / storm frames while the phase is not assemble
InEntryPhase == phase \in {"suction", "storm"}

HeightEps == 10

\* C6: after the wrap handling of every suction / storm frame the orbit height
\* of every particle lies within [floor - e, ceiling + e] of the live config.
C6_HeightInColumn ==
  (idle > 0 /\ InEntryPhase) =>
    \A i \in 1..Len(particlesRef) :
      /\ BottomLimit(configRef) - HeightEps <= particlesRef[i].orbitHeight
      /\ particlesRef[i].orbitHeight <= TopLimit(configRef) + HeightEps

CeilDiv(a, b) == (a + b - 1) \div b

\* ceil(1 / s) for the entry speed s of the particle p
EntryTicks(p) == CeilDiv(EntryOne, p.entrySpeed)

\* C8 as stated: entry progress is 1 after ceil(1/s) suction / storm frames.
C8_EntryWithinCeil ==
  \A i \in 1..Len(particlesRef) :
    (InEntryPhase /\ idle >= EntryTicks(particlesRef[i]))
      => particlesRef[i].entryProgress = EntryOne

\* C8: entry progress starts at 0, lies in [0, 1], never decreases, stays 1
\* once it is 1, and is 1 after ceil(1/s) + 1 suction / storm frames.
C8_EntryWithinCeilPlusOne ==
  /\ [](\A i \in 1..Len(particlesRef) :
          /\ (idle = 0 => particlesRef[i].entryProgress = 0)
          /\ 0 <= particlesRef[i].entryProgress
          /\ particlesRef[i].entryProgress <= EntryOne
          /\ (InEntryPhase /\ idle >= EntryTicks(particlesRef[i]) + 1)
               => particlesRef[i].entryProgress = EntryOne)
  /\ [][\A i \in 1..Len(particlesRef) :
          /\ i \in 1..Len(particlesRef')
          /\ particlesRef'[i].entryProgress >= particlesRef[i].entryProgress
          /\ particlesRef[i].entryProgress = EntryOne
               => particlesRef'[i].entryProgress = EntryOne]_vars

\* ceil(1/s) frames have run and the entry progress is still below 1
C8_Witness ==
  /\ InEntryPhase
  /\ \E i \in 1..Len(particlesRef) :
       /\ idle = EntryTicks(particlesRef[i])
       /\ particlesRef[i].entryProgress < EntryOne
       /\ particlesRef[i].entryProgress > 0

\* the opacity the depth z gives: 1 on [-2000, 800], linear to 0 over 300
\* above and over 1000 below, never under 0
DepthOpacity(z) ==
  IF -20000 <= z /\ z <= 8000 THEN OpacityOne
  ELSE IF z > 8000
         THEN Max(0, OpacityOne - RoundDiv((z - 8000) * OpacityOne, 3000))
         ELSE Max(0, OpacityOne - RoundDiv((-20000 - z) * OpacityOne, 10000))

\* C9: after every frame an element is hidden exactly when the opacity its
\* particle's depth gives is below 0.01, and a shown element carries that
\* opacity; so a hidden element is shown again by the first frame whose
\* opacity is at least 0.01.
C9_OpacityCulling ==
  idle > 0 =>
    \A i \in 1..Len(particlesRef) :
      /\ elementsRef[i].display = "none"
           <=> DepthOpacity(particlesRef[i].z) < OpacityOne \div 100
      /\ elementsRef[i].display # "none" =>
           /\ elementsRef[i].display = "flex"
           /\ elementsRef[i].opacity = RoundDiv(DepthOpacity(particlesRef[i].z) * 100,
                                                OpacityOne)

\* an element that was shown (its zIndex was written) is hidden by the far fade
C9_Witness ==
  \E i \in 1..Len(particlesRef) :
    /\ elementsRef[i].display = "none"
    /\ elementsRef[i].zIndex # 0
    /\ particlesRef[i].z < -FarFade

----------------------------------------------------------------------------
(* The assembly: three particles and the forests a response can map to, in  *)
(* a session whose result arrived right after the mount.                    *)

AsmFrames == 3

\* an id the response names but the item list does not hold
IdZ9 == <<122, 57>>

AsmTabs == <<Item(Id01), Item(Id82), Item(IdA3)>>

Leaf(ids) == RawGroup(ids, <<>>)

\* groups with direct members, with members one and two levels down, with
\* members at two levels, and one that maps to an empty group
AsmGroups ==
  {Leaf(<<Id01>>), Leaf(<<Id82>>), Leaf(<<Id01, Id82, IdA3>>),
   RawGroup(<<>>, <<Leaf(<<Id82>>)>>),
   RawGroup(<<>>, <<RawGroup(<<>>, <<Leaf(<<IdA3>>)>>)>>),
   RawGroup(<<Id01>>, <<Leaf(<<IdA3>>)>>),
   Leaf(<<IdZ9>>)}

\* the responses of at most two top-level groups
AsmResponses ==
  {<<>>} \cup {<<g>> : g \in AsmGroups} \cup {<<g, h>> : g \in AsmGroups, h \in AsmGroups}

\* the state the commit of 'assembling' leaves when the call resolved at once
InitAssemble ==
  /\ appState = "assembling"
  /\ tabs = AsmTabs
  /\ \E raw \in AsmResponses :
       organizedGroups = Some(MapResponseToGroups(raw, AsmTabs))
  /\ inflight = <<>>
  /\ timers = PhaseEffect(<<>>, organizedGroups)
  /\ phase = "suction"
  /\ particlesRef \in InitialParticles(tabs, Draws)
  /\ elementsRef = InitialElements(tabs)
  /\ userOffset = 0
  /\ configRef = DEFAULT_CONFIG
  /\ requestRef = 1
  /\ completions = 0
  /\ runs = 1
  /\ renders = 0
  /\ frames = 0
  /\ sessions = 1
  /\ idle = 0
  /\ sinceMount = 0
  /\ sinceResult = 0
  /\ config = DEFAULT_CONFIG
  /\ configIsDefault = TRUE
  /\ storage = Some(Stringify(DEFAULT_CONFIG))
  /\ commits = <<>>
  /\ userSet = NoUserSet

NextAssemble ==
  \/ FireStorm
  \/ FireAssemble
  \/ FireComplete(Draws)
  \/ Tick
  \/ (idle < AsmFrames /\ Animate(FrameDraws))

SpecAssemble == InitAssemble /\ [][NextAssemble]_vars

RECURSIVE Members(_)
\* the ids in the subtree of a group
Members(grp) ==
  {grp.tabs[i].id : i \in 1..Len(grp.tabs)} \cup UNION {Members(grp.subgroups[j]) : j \in 1..Len(grp.subgroups)}

\* the 0-based index of the first top-level group whose subtree holds id, or
\* the number of top-level groups
FirstColumn(groups, id) ==
  IF \E k \in 1..Len(groups) : id \in Members(groups[k])
    THEN (CHOOSE k \in 1..Len(groups) :
            /\ id \in Members(groups[k])
            /\ \A j \in 1..(k - 1) : id \notin Members(groups[j])) - 1
    ELSE Len(groups)

\* the x of column k of n: the columns are 320 apart and centred on 0
ColumnX(n, k) == (ColWidth - n * ColWidth) \div 2 + k * ColWidth

\* C7: a resolved target column is that of the first top-level group whose
\* subtree holds the particle's id, at any depth, or the overflow column after
\* the last group; it is a function of the id and the forest alone.
C7_FirstGroupColumn ==
  IsSome(organizedGroups) =>
    \A i \in 1..Len(particlesRef) :
      IsSome(particlesRef[i].targetX) =>
        Get(particlesRef[i].targetX) =
          ColumnX(Len(Get(organizedGroups)),
                  FirstColumn(Get(organizedGroups), particlesRef[i].id))

\* of two top-level groups the second holds a particle's id two levels down
\* and nowhere else, another particle's id is in neither, and both are resolved
C7_Witness ==
  /\ IsSome(organizedGroups)
  /\ Len(Get(organizedGroups)) = 2
  /\ \E i, j \in 1..Len(particlesRef) :
       LET G == Get(organizedGroups)
           a == particlesRef[i]
           b == particlesRef[j]
       IN  /\ a.id \notin Members(G[1])
           /\ a.id \notin Members([G[2] EXCEPT !.subgroups = <<>>])
           /\ \A k \in 1..Len(G[2].subgroups) :
                a.id \notin Members([G[2].subgroups[k] EXCEPT !.subgroups = <<>>])
           /\ a.id \in Members(G[2])
           /\ a.targetX = Some(ColumnX(2, 1))
           /\ b.id \notin Members(G[1]) \cup Members(G[2])
           /\ b.targetX = Some(ColumnX(2, 2))

\* C10: when one top-level group without subgroups holds all three items,
\* the resolved targets have one x and three different y.
C10_DistinctRows ==
  (/\ IsSome(organizedGroups)
   /\ Len(Get(organizedGroups)) = 1
   /\ Get(organizedGroups)[1].subgroups = <<>>
   /\ Range(AsmTabs) \subseteq Range(Get(organizedGroups)[1].tabs)
   /\ Len(particlesRef) = 3
   /\ \A i \in 1..Len(particlesRef) : IsSome(particlesRef[i].targetX))
  => \A i, j \in 1..Len(particlesRef) :
       /\ particlesRef[i].targetX = particlesRef[j].targetX
       /\ i # j => particlesRef[i].targetY # particlesRef[j].targetY

----------------------------------------------------------------------------
(* The session with an empty item list: the list was cleared during the     *)
(* explosion, the 800 ms callback then mounted the visualizer and made the  *)
(* call with the items it had captured.  Timers that are due run.           *)

InitEmpty ==
  /\ appState = "processing"
  /\ tabs = <<>>
  /\ organizedGroups = None
  /\ inflight = <<(<<Item(Id01), Item(Id82)>>)>>
  /\ timers = PhaseEffect(<<>>, None)
  /\ phase = "suction"
  /\ particlesRef \in InitialParticles(tabs, Draws)
  /\ elementsRef = InitialElements(tabs)
  /\ userOffset = 0
  /\ configRef = DEFAULT_CONFIG
  /\ requestRef = 1
  /\ completions = 0
  /\ runs = 1
  /\ renders = 0
  /\ frames = 0
  /\ sessions = 1
  /\ idle = 0
  /\ sinceMount = 0
  /\ sinceResult = 0
  /\ config = DEFAULT_CONFIG
  /\ configIsDefault = TRUE
  /\ storage = Some(Stringify(DEFAULT_CONFIG))
  /\ commits = <<>>
  /\ userSet = NoUserSet

NextEmpty ==
  \/ ApiSuccess(Draws)
  \/ FireStorm
  \/ FireAssemble
  \/ FireComplete(Draws)
  \/ Tick
  \/ (idle < PhysFrames /\ Animate(FrameDraws))

SpecEmpty ==
  /\ InitEmpty
  /\ [][NextEmpty]_vars
  /\ WF_vars(Tick)
  /\ WF_vars(FireStorm)
  /\ WF_vars(FireAssemble)
  /\ WF_vars(FireComplete(Draws))

----------------------------------------------------------------------------
(* Claims about the timing of the phases, under Spec *)

C13_StormOnTime ==
  (Mounted(appState) /\ sinceMount > StormDelay) => phase # "suction"

\* C14: a mounted session that has had its result for more than 2.5 s is in
\* the assemble phase, however the host re-renders.
C14_AssembleOnTime ==
  (Mounted(appState) /\ IsSome(organizedGroups) /\ sinceResult > StormDelay)
    => phase = "assemble"

----------------------------------------------------------------------------
(* The mount: item lists around the cap of the pool and the texts the       *)
(* config slot can hold, from the explosion to the first frames.            *)

MountFrames == 2

\* the id of the k-th item of a list: three decimal digits
IdNo(k) == <<48 + (k \div 100), 48 + ((k \div 10) % 10), 48 + (k % 10)>>

ItemList(n) == [i \in 1..n |-> Item(IdNo(i))]

PoolSizes == {0, 1, 119, 120, 121, 125}

\* objects a stored text can be the JSON of: none, some or all of the
\* parameters, or a parameter and a key that is no parameter
StoredObjects ==
  {<<>>, [baseSpeed |-> 50], [radiusMultiplier |-> 30, verticalSpread |-> 5000],
   WIDE_CONFIG, [baseSpeed |-> 20, zoom |-> 3]}

Slots ==
  {None, Some(EmptyText), Some(GarbageText), Some(ScalarText)}
    \cup {Some(ObjectText(obj)) : obj \in StoredObjects}

\* one frame's draws for a large pool
PoolFrameDraws == [noise : {0}, jitter : {0}]

\* the state handleOrganize leaves: the explosion runs, its callback pending
InitMount ==
  /\ appState = "exploding"
  /\ tabs \in {ItemList(n) : n \in PoolSizes}
  /\ organizedGroups = None
  /\ inflight = <<>>
  /\ timers = <<Timer("explode", ExplodeDelay, FALSE, tabs)>>
  /\ phase = "suction"
  /\ particlesRef = <<>>
  /\ elementsRef = <<>>
  /\ userOffset = 0
  /\ configRef = DEFAULT_CONFIG
  /\ requestRef = 0
  /\ completions = 0
  /\ runs = 1
  /\ renders = 0
  /\ frames = 0
  /\ sessions = 0
  /\ idle = 0
  /\ sinceMount = 0
  /\ sinceResult = 0
  /\ config = DEFAULT_CONFIG
  /\ configIsDefault = TRUE
  /\ storage \in Slots
  /\ commits = <<>>
  /\ userSet = NoUserSet

NextMount ==
  \/ FireExplode(Draws)
  \/ FireStorm
  \/ Tick
  \/ (idle < MountFrames /\ Animate(PoolFrameDraws))

SpecMount == InitMount /\ [][NextMount]_vars

Min(a, b) == IF a <= b THEN a ELSE b

\* C15: the pool of a mounted session has min(n, 120) particles for a list
\* of n items; the i-th carries the id, title, domain and url of the i-th
\* item, and before the first frame has entry progress 0 and no target.
C15_PoolFromItems ==
  Mounted(appState) =>
    /\ Len(particlesRef) = Min(Len(tabs), 120)
    /\ \A i \in 1..Len(particlesRef) :
         /\ particlesRef[i].id = tabs[i].id
         /\ particlesRef[i].title = tabs[i].title
         /\ particlesRef[i].domain = tabs[i].domain
         /\ particlesRef[i].url = tabs[i].url
         /\ frames = 0 =>
              /\ particlesRef[i].entryProgress = 0
              /\ particlesRef[i].targetX = None
              /\ particlesRef[i].targetY = None

\* a list of 121 items has just been mounted as a pool of 120
C15_Witness ==
  /\ Mounted(appState)
  /\ Len(tabs) = 121
  /\ Len(particlesRef) = 120
  /\ frames = 0

\* C20: the config a session starts with is the defaults when the slot is
\* absent or cannot be parsed; when the slot holds an object, a parameter is
\* the stored one if the object has it and the default if not.
C20_LoadOrDefault ==
  [][sessions' = sessions + 1 =>
       /\ Mounted(appState')
       /\ configRef' = config'
       /\ (storage = None \/ storage = Some(GarbageText)) =>
            \A k \in Keys : config'[k] = DEFAULT_CONFIG[k]
       /\ \A obj \in StoredObjects :
            storage = Some(ObjectText(obj)) =>
              \A k \in Keys :
                config'[k] = IF k \in DOMAIN obj THEN obj[k] ELSE DEFAULT_CONFIG[k]]_vars

\* a session started from a slot that stores the speed only
C20_Witness ==
  /\ sessions = 1
  /\ config.baseSpeed = 50
  /\ \A k \in Keys \ {"baseSpeed"} : config[k] = DEFAULT_CONFIG[k]

----------------------------------------------------------------------------
(* Claims about the frame callback, under Spec *)

\* C16: while no session is mounted no frame callback is pending, and no
\* step changes the pool or the projected styles of the session torn down.
C16_NoFrameAfterTeardown ==
  /\ [](~Mounted(appState) => requestRef = 0)
  /\ [][(~Mounted(appState) /\ ~Mounted(appState')) =>
          particlesRef' = particlesRef /\ elementsRef' = elementsRef]_vars

\* a session that ran frames was torn down by its completion callback and
\* every timer it left behind has run
C16_Witness ==
  /\ appState = "results"
  /\ sessions = 1
  /\ frames = MaxFrames
  /\ Len(particlesRef) > 0
  /\ timers = <<>>

----------------------------------------------------------------------------
(* The sliders (ConfigSlider), the Reset button and the debounced commits *)

\* a pending debounce timer: the slider's parameter, the value its callback
\* will commit, the time left and the session whose setConfig it will call
Commit(key, val) == [key |-> key, val |-> val, left |-> DebounceDelay, session |-> sessions]

\* ConfigSlider.handleChange: updateConfigRef at once, then the slider's
\* pending timer is cleared and a new one is started
SliderChange(key, val) ==
  /\ Mounted(appState)
  /\ configRef' = [configRef EXCEPT ![key] = val]
  /\ LET Others(c) == ~(c.key = key /\ c.session = sessions)
     IN  commits' = Append(SelectSeq(commits, Others), Commit(key, val))
  /\ userSet' = [userSet EXCEPT ![key] = Some(val)]
  /\ UNCHANGED <<hostVars, timers, phase, particlesRef, userOffset, requestRef,
                 elementsRef, completions, frames, sessions, idle, clockVars,
                 storeVars>>

\* the debounce timer to run next: the oldest one that is due
DueCommit(i) == /\ i \in 1..Len(commits)
                /\ commits[i].left = 0
                /\ \A j \in 1..(i - 1) : commits[j].left > 0

\* the commit without the effect that writes the slot
FireCommitNoPersist ==
  \E i \in 1..Len(commits) :
    /\ DueCommit(i)
    /\ commits' = Without(commits, i)
    /\ IF Mounted(appState) /\ commits[i].session = sessions
         THEN /\ config' = [config EXCEPT ![commits[i].key] = commits[i].val]
              /\ configIsDefault' = FALSE
              /\ configRef' = config'
              /\ storage' = storage
         ELSE UNCHANGED <<storeVars, configRef>>
    /\ UNCHANGED <<hostVars, timers, phase, particlesRef, userOffset, requestRef,
                   elementsRef, completions, frames, sessions, idle, clockVars,
                   userSet>>

\* onChange(newVal): setConfig(p => ({ ...p, [key]: newVal })), then the
\* effects on [config] write the slot and overwrite configRef.current; the
\* setConfig of a component that is gone does nothing
FireCommit ==
  \E i \in 1..Len(commits) :
    /\ DueCommit(i)
    /\ commits' = Without(commits, i)
    /\ IF Mounted(appState) /\ commits[i].session = sessions
         THEN /\ config' = [config EXCEPT ![commits[i].key] = commits[i].val]
              /\ configIsDefault' = FALSE
              /\ configRef' = config'
              /\ storage' = Some(Stringify(config'))
         ELSE UNCHANGED <<storeVars, configRef>>
    /\ UNCHANGED <<hostVars, timers, phase, particlesRef, userOffset, requestRef,
                   elementsRef, completions, frames, sessions, idle, clockVars,
                   userSet>>

\* 100 ms pass while no debounce timer is due
TickCommits ==
  /\ commits # <<>>
  /\ \A i \in 1..Len(commits) : commits[i].left > 0
  /\ commits' = [i \in 1..Len(commits) |-> [commits[i] EXCEPT !.left = @ - 1]]
  /\ UNCHANGED <<hostVars, timers, phase, particlesRef, userOffset, requestRef,
                 elementsRef, completions, frames, sessions, idle, clockVars,
                 storeVars, configRef, userSet>>

\* the Reset button: setConfig(DEFAULT_CONFIG); a state that already is that
\* object is left alone by React, and the effects on [config] do not run
ResetConfig ==
  /\ Mounted(appState)
  /\ IF configIsDefault
       THEN UNCHANGED <<storeVars, configRef>>
       ELSE /\ config' = DEFAULT_CONFIG
            /\ configIsDefault' = TRUE
            /\ configRef' = DEFAULT_CONFIG
            /\ storage' = Some(Stringify(DEFAULT_CONFIG))
  /\ userSet' = NoUserSet
  /\ UNCHANGED <<hostVars, timers, phase, particlesRef, userOffset, requestRef,
                 elementsRef, completions, frames, sessions, idle, clockVars,
                 commits>>

CfgFrames == 2

\* the slider inputs of the model: two speeds and a radius
SliderInputs ==
  {<<"baseSpeed", 20>>, <<"baseSpeed", 50>>, <<"radiusMultiplier", 30>>}

\* the slots a session of the model starts from: none, and a stored speed
ConfigSlots == {None, Some(ObjectText([baseSpeed |-> 50]))}

\* a session in the storm phase, without a result, no timer pending
InitConfig ==
  /\ appState = "processing"
  /\ tabs = <<Item(Id01)>>
  /\ organizedGroups = None
  /\ inflight = <<tabs>>
  /\ timers = <<>>
  /\ phase = "storm"
  /\ particlesRef \in InitialParticles(tabs, Draws)
  /\ elementsRef = InitialElements(tabs)
  /\ userOffset = 0
  /\ \E slot \in ConfigSlots :
       /\ config = LoadConfig(slot)
       /\ configIsDefault = LoadsDefault(slot)
  /\ configRef = config
  /\ storage = Some(Stringify(config))
  /\ requestRef = 1
  /\ completions = 0
  /\ runs = 1
  /\ renders = 0
  /\ frames = 0
  /\ sessions = 1
  /\ idle = 0
  /\ sinceMount = 0
  /\ sinceResult = 0
  /\ commits = <<>>
  /\ userSet = NoUserSet

NextConfig ==
  \/ \E in \in SliderInputs : SliderChange(in[1], in[2])
  \/ FireCommit
  \/ TickCommits
  \/ ResetConfig
  \/ HandleClear(Draws)
  \/ (idle < CfgFrames /\ Animate(PoolFrameDraws))

SpecConfig == InitConfig /\ [][NextConfig]_vars

----------------------------------------------------------------------------
(* Claims about the sliders, under SpecConfig *)

\* C18: after the user has set parameter k to v on its slider, the live
\* config the frames read has k = v until the user changes k again or
\* resets the config, whatever debounced commits are pending or firing.
C18_LiveConfigKeepsInput ==
  Mounted(appState) =>
    \A k \in Keys : IsSome(userSet[k]) => configRef[k] = Get(userSet[k])

\* the pending debounce timers of parameter k's slider in this session
PendingFor(k) ==
  {i \in 1..Len(commits) : commits[i].key = k /\ commits[i].session = sessions}

\* the step is the callback of debounce timer i
CommitRuns(i) == DueCommit(i) /\ commits' = Without(commits, i)

\* C19: commits are trailing-edge coalesced: a burst of changes to one
\* parameter, each less than 200 ms after the one before, has one timer
\* pending, which carries the last value and is due 200 ms after the last
\* change; when it runs, that value is committed and the slot is written;
\* nothing else is committed or written while the session lasts.
C19_TrailingCommit ==
  /\ [](\A k \in Keys : Cardinality(PendingFor(k)) <= 1)
  /\ [][\A k \in Keys :
          (userSet'[k] # userSet[k] /\ IsSome(userSet'[k])) =>
            \E i \in 1..Len(commits') :
              /\ commits'[i].key = k
              /\ commits'[i].session = sessions
              /\ commits'[i].val = Get(userSet'[k])
              /\ commits'[i].left = DebounceDelay]_vars
  /\ [][\A i \in 1..Len(commits) :
          CommitRuns(i) =>
            /\ config'[commits[i].key] = commits[i].val
            /\ storage' = Some(Stringify(config'))]_vars
  /\ [][(storage' # storage /\ sessions' = sessions) =>
          \/ config' = DEFAULT_CONFIG
          \/ \E i \in 1..Len(commits) :
               /\ CommitRuns(i)
               /\ config' = [config EXCEPT ![commits[i].key] = commits[i].val]]_vars

----------------------------------------------------------------------------
(* Claims about the wheel handler, under SpecMomentum *)

\* a step that is a wheel event (under SpecMomentum)
IsWheel == idle' = 0

\* the momentum m moved by s steps of 0.1 and cut at the clamp
Stepped(m, s) ==
  LET x == m + s * OffsetStep
  IN  IF x > OffsetMax THEN OffsetMax ELSE IF x < -OffsetMax THEN -OffsetMax ELSE x

\* C21 as stated: from every momentum that scroll events and frames reach, a
\* scroll event with sign s changes the momentum by exactly s x 0.1, up to
\* the clamp (so sign 0 leaves it unchanged), and after a scroll event the
\* momentum is a multiple of 0.1.
C21_ExactStep ==
  /\ [](\A s \in {-1, 0, 1} :
          RoundClamp(userOffset + s * OffsetStep) = Stepped(userOffset, s))
  /\ [][IsWheel => userOffset' % OffsetStep = 0]_vars

----------------------------------------------------------------------------
(* Claims about the order of a frame's operations, under SpecAssemble *)

\* the places of the log that hold operation op on particle i
Places(log, op, i) == {k \in DOMAIN log : log[k].op = op /\ log[k].i = i}

\* C22 as stated: within one frame every particle of the pool is updated by
\* the physics step before any particle is projected, and the particles are
\* projected in pool order.
C22_UpdateAllThenProject ==
  requestRef >= 1 =>
    LET log == FrameLog(Len(particlesRef))
    IN  \A a, b \in DOMAIN log :
          /\ (log[a].op = "update" /\ log[b].op = "project") => a < b
          /\ (log[a].op = "project" /\ log[b].op = "project" /\ a < b) =>
               log[a].i < log[b].i

\* C22, amended: within one frame the particles are taken in pool order, and
\* each particle is updated by the physics step and then projected before
\* the next particle is updated; every particle is updated once and
\* projected once, and its projection shows its updated state.
C22_UpdateThenProjectEach ==
  /\ [](requestRef >= 1 =>
          LET n == Len(particlesRef)
              log == FrameLog(n)
          IN  /\ Len(log) = 2 * n
              /\ \A i \in 1..n :
                   /\ Cardinality(Places(log, "update", i)) = 1
                   /\ Cardinality(Places(log, "project", i)) = 1
                   /\ \A u \in Places(log, "update", i), q \in Places(log, "project", i) :
                        /\ u < q
                        /\ \A j \in (i + 1)..n :
                             \A v \in Places(log, "update", j) : q < v)
  /\ [][(particlesRef' # particlesRef /\ sessions' = sessions) =>
          \A i \in 1..Len(particlesRef) :
            elementsRef'[i] = Project(elementsRef[i], particlesRef'[i])]_vars

\* frames have run on a pool of three particles, and one is shown
C22_Witness ==
  /\ frames > 0
  /\ requestRef >= 1
  /\ Len(particlesRef) = 3
  /\ \E i \in 1..3 : elementsRef[i].display = "flex"

----------------------------------------------------------------------------
(* Wheel events and frames of a session in the storm phase with one         *)
(* particle: the momentum a frame's modifiers are computed from.            *)

ScrollFrames == 3

InitScroll ==
  /\ appState = "processing"
  /\ tabs = <<Item(Id01)>>
  /\ organizedGroups = None
  /\ inflight = <<tabs>>
  /\ timers = <<>>
  /\ phase = "storm"
  /\ particlesRef \in InitialParticles(tabs, PhysDraws)
  /\ elementsRef = InitialElements(tabs)
  /\ userOffset = 0
  /\ configRef \in PhysConfigs
  /\ requestRef = 1
  /\ completions = 0
  /\ runs = 1
  /\ renders = 0
  /\ frames = 0
  /\ sessions = 1
  /\ idle = 0
  /\ sinceMount = 0
  /\ sinceResult = 0
  /\ config = configRef
  /\ configIsDefault = (config = DEFAULT_CONFIG)
  /\ storage = Some(Stringify(config))
  /\ commits = <<>>
  /\ userSet = NoUserSet

NextScroll ==
  \/ \E direction \in {-1, 0, 1} : HandleWheel(direction)
  \/ (frames < ScrollFrames /\ Animate(FrameDraws))

SpecScroll == InitScroll /\ [][NextScroll]_vars

\* the frame's physics step of the particles, computed with momentum m
SteppedWith(m) ==
  \E rnd \in [1..Len(particlesRef) -> FrameDraws] :
    particlesRef' = [i \in 1..Len(particlesRef) |->
                       PhysicsStep(particlesRef[i], phase, configRef, m,
                                   organizedGroups, rnd[i])]

\* the two modifiers sum to 2 and each lies in [0.5, 1.5]
ModifiersInRange(m) ==
  /\ EffectiveSpeedMod(m) + EffectiveZoomMod(m) = 2 * OffOne
  /\ OffOne \div 2 <= EffectiveSpeedMod(m) /\ EffectiveSpeedMod(m) <= 3 * (OffOne \div 2)
  /\ OffOne \div 2 <= EffectiveZoomMod(m) /\ EffectiveZoomMod(m) <= 3 * (OffOne \div 2)

\* C23 as stated: in each frame the decay is applied first and the frame's
\* particles are moved with the modifiers 1 + m and 1 - m, m the momentum
\* after that frame's decay; the modifiers sum to 2 and lie in [0.5, 1.5].
C23_ModifiersAfterDecay ==
  [][frames' = frames + 1 =>
       /\ SteppedWith(userOffset')
       /\ ModifiersInRange(userOffset')]_vars

\* C23, amended: the modifiers of a frame are 1 + m and 1 - m, m the
\* momentum at the start of the frame, before that frame's decay (the decay
\* acts on the next frame); they sum to 2 and lie in [0.5, 1.5].
C23_ModifiersBeforeDecay ==
  [][frames' = frames + 1 =>
       /\ SteppedWith(userOffset)
       /\ ModifiersInRange(userOffset)
       /\ userOffset' = DecayOffset(userOffset)]_vars

\* a frame has run with a momentum that its decay has changed
C23_Witness ==
  /\ frames > 0
  /\ idle > 0
  /\ userOffset # 0
  /\ configRef = WIDE_CONFIG

----------------------------------------------------------------------------
(* Claims about the orbit radius and the depth key, under SpecPhysics *)

\* C24 as stated: for every orbit height and vertical extent the base orbit
\* radius is 200 + 600 x (1 - |1 - heightFactor|)^2, largest at the vertical
\* extremes of the column and narrowest at mid-column.
C24_RadiusWaist ==
  \A i \in 1..Len(particlesRef) :
    LET h == particlesRef[i].orbitHeight
        S == configRef.verticalSpread
    IN  /\ BaseRadius(h, S) = BaseRadiusWaist(h, S)
        /\ BaseRadius(0, S) <= BaseRadius(S \div 2, S)
        /\ BaseRadius(0, S) <= BaseRadius(-(S \div 2), S)

\* C24, amended: the base orbit radius is 200 + 600 x |1 - heightFactor|^2:
\* 800 at the lower end of the heights (-verticalSpread/2), 350 at
\* mid-column, 200 at the upper end (+verticalSpread/2), never below 200,
\* and within the column the lower the height the larger the radius.
C24_RadiusFunnel ==
  \A i \in 1..Len(particlesRef) :
    LET h == particlesRef[i].orbitHeight
        S == configRef.verticalSpread
        r == BaseRadius(h, S)
    IN  /\ r >= 2000
        /\ BaseRadius(-(S \div 2), S) = 8000
        /\ BaseRadius(0, S) = 3500
        /\ BaseRadius(S \div 2, S) = 2000
        /\ (-(S \div 2) <= h /\ h <= S \div 2) => (r <= 8000)
        /\ (-(S \div 2) <= h /\ h <= 0) => r >= 3500
        /\ (0 <= h /\ h <= S \div 2) => r <= 3500
        /\ (h > -(S \div 2) /\ h <= S \div 2) => BaseRadius(h - 1, S) >= r

\* a particle in the lower half of the column after frames of the storm
C24_Witness ==
  /\ frames > 0
  /\ phase = "storm"
  /\ \E i \in 1..Len(particlesRef) :
       /\ particlesRef[i].orbitHeight < 0
       /\ particlesRef[i].orbitHeight >= -(configRef.verticalSpread \div 2)
       /\ BaseRadius(particlesRef[i].orbitHeight, configRef.verticalSpread) > 3500

----------------------------------------------------------------------------
(* Claims about the columns, under SpecAssemble *)

\* the particles whose target is resolved
Resolved == {i \in 1..Len(particlesRef) : IsSome(particlesRef[i].targetX)}

\* C26: with N top-level groups the target x of column k is
\* -N*320/2 + 320/2 + k*320: adjacent columns are 320 apart, the N named
\* columns are centred on 0 (x of column k plus x of column N-1-k is 0), and
\* the overflow column is 320 to the right of the last named column.
C26_ColumnsCentred ==
  IsSome(organizedGroups) =>
    LET g == Get(organizedGroups)
        N == Len(g)
        Col(i) == FirstColumn(g, particlesRef[i].id)
        X(i) == Get(particlesRef[i].targetX)
    IN  /\ \A i \in Resolved :
             X(i) = -((N * 3200) \div 2) + 3200 \div 2 + Col(i) * 3200
        /\ \A i, j \in Resolved :
             /\ Col(j) = Col(i) + 1 => X(j) - X(i) = 3200
             /\ (Col(i) < N /\ Col(j) = N - 1 - Col(i)) => X(i) + X(j) = 0
             /\ (Col(j) = N /\ Col(i) < N) => X(j) > X(i)

\* of two groups, one particle is resolved to each column and one to the
\* overflow column
C26_Witness ==
  /\ IsSome(organizedGroups)
  /\ Len(Get(organizedGroups)) = 2
  /\ Resolved = {1, 2, 3}
  /\ {FirstColumn(Get(organizedGroups), particlesRef[i].id) : i \in Resolved} = {0, 1, 2}

----------------------------------------------------------------------------
(* Claims about the three copies of the config, under SpecConfigFair: time  *)
(* passes and a due timer's callback runs                                   *)

SpecConfigFair == SpecConfig /\ WF_vars(TickCommits) /\ WF_vars(FireCommit)

\* the step is an input on a slider
SliderInput == \E in \in SliderInputs : SliderChange(in[1], in[2])

\* C27: whenever no debounced commit is pending, the live config the frames
\* read, the committed config and the persisted config are equal in every
\* parameter; the pending commits run, so that the copies converge when the
\* input on the sliders stops.
C27_CopiesConverge ==
  /\ []((Mounted(appState) /\ commits = <<>>) =>
          /\ configRef = config
          /\ storage = Some(Stringify(config))
          /\ LoadConfig(storage) = config)
  /\ ([]<>(commits = <<>>) \/ []<><<SliderInput>>_vars)

\* a commit has run: the committed config holds the user's value and no
\* commit is pending
C27_Witness ==
  /\ Mounted(appState)
  /\ commits = <<>>
  /\ ~configIsDefault
  /\ \E k \in Keys : IsSome(userSet[k]) /\ config[k] = Get(userSet[k])
                     /\ config[k] # DEFAULT_CONFIG[k]

----------------------------------------------------------------------------
(* Claims about the Reset button, under SpecConfig *)

\* C28: after Reset the committed config equals the defaults in every
\* parameter, and stays equal to them until the next input on a slider; a
\* commit that was pending at the Reset does not overwrite a default.
C28_ResetHolds ==
  /\ [][ResetConfig => config' = DEFAULT_CONFIG]_vars
  /\ [][(/\ Mounted(appState) /\ Mounted(appState')
         /\ sessions' = sessions
         /\ config = DEFAULT_CONFIG
         /\ userSet = NoUserSet /\ userSet' = NoUserSet) =>
          config' = DEFAULT_CONFIG]_vars

----------------------------------------------------------------------------
(* Claims about the timers after a teardown, under Spec *)

\* C29: after the visualization is torn down no timer the engine started
\* has an effect: the completion callback is not invoked and no phase
\* change is applied, whichever phase the session was dismissed in.
C29_NoTimerAfterTeardown ==
  [][(sessions >= 1 /\ ~Mounted(appState) /\ sessions' = sessions) =>
       /\ completions' = completions
       /\ phase' = phase]_vars

----------------------------------------------------------------------------
(* Claims about the host's app state, under Spec *)

\* C30: once the user has returned the app to idle while a run was exploding
\* or processing, it stays idle until the user starts a new run: neither the
\* pending explosion timer nor a response in flight moves it to processing
\* or assembling, and assembling is entered from processing only.
C30_IdleUntilOrganize ==
  [][/\ appState = "idle" => appState' \notin {"processing", "assembling"}
     /\ (appState' = "assembling" /\ appState # "assembling") =>
          appState = "processing"]_vars

====
